---- MODULE Spec2Model ----
(***************************************************************************)
(* Humanforce -> Google Calendar sync.                                     *)
(*                                                                         *)
(* src/sync.py is the GUI application: its reconciler                      *)
(* upload_events_to_gcal(cfg, events, on_log), the run history             *)
(* (_load_history / _save_history / _record_history) and the Tk frontend   *)
(* that starts reconcile runs on worker threads.                           *)
(* src/HumanForce_Sync.py is the standalone script with its own            *)
(* upload_events_to_gcal(events).                                          *)
(*                                                                         *)
(* Times are seconds.  A Python datetime is a record                       *)
(*   [ty, wall, aware, off]: wall-clock seconds, whether it carries a      *)
(* tzinfo, and the UTC offset of that tzinfo; its instant is wall - off.   *)
(* A datetime.date (all-day VEVENT) has ty = "date".                       *)
(***************************************************************************)
EXTENDS Integers, Sequences, FiniteSets, TLC

VARIABLES
    events,     \* the source events handed to upload_events_to_gcal
    remote,     \* the remote calendar: remote[id] is the event with that id
    pc,         \* position of the run: start, loop, returned, raised
    run,        \* 1 for the first run, 2 for the re-run with the same events
    idx,        \* index of the next source event of the for loop
    stats,      \* the stats dict of the run
    faultLog,   \* per pass of this run, the store call that failed (or "none")
    writeLog,   \* per pass of this run, the id of the remote event written (or 0)
    cause,      \* what made the run raise: none, credentials, timezone, date
    last,       \* what the last loop iteration did
    buttons,    \* TRUE when the buttons of disable_while_busy are enabled
    workers,    \* the worker threads the GUI has started, in start order
    histFile,   \* history.json
    appended,   \* every record appended to the history so far, in order
    recResult,  \* how the last record operation ended: none, saved, raised
    report,     \* how the last sync run ended for its caller
    recorders,  \* the recorders that share history.json, each in its cycle
    cfg,        \* the Config object
    envFile,    \* the text of .env
    tokenFile,  \* token.json
    credFile,   \* credentials.json
    auth        \* what the last call of get_calendar_service did

rvars == <<events, remote, pc, run, idx, stats, faultLog, writeLog, cause, last>>
gvars == <<buttons, workers>>
hvars == <<histFile, appended, recResult, report, recorders>>
cvars == <<cfg, envFile, tokenFile, credFile, auth>>
vars == <<rvars, gvars, hvars, cvars>>

----
(* Program constants *)

Tolerance == 18000
MaxResults == 10

HourSecs == 60 * 60
WindowPad == 5 * HourSecs

(* Bounds of the model *)

MaxEvents == 3
MaxMatchEvents == 1
MaxRemote == 2
MaxFaultEvents == 5
MaxWorkers == 3
MaxRecords == 102
MaxErrorRunAt == 3

(* Offsets of the zones used by the inputs: the configured zone            *)
(* (cfg.TIMEZONE, Australia/Melbourne) and a second zone for events that   *)
(* already carry one.                                                      *)
CfgOffset == 10 * HourSecs
OtherOffset == 11 * HourSecs
BaseTime == 48 * HourSecs
ShiftLen == HourSecs

----
(* Python datetimes *)

Abs(x) == IF x < 0 THEN 0 - x ELSE x

Aware(inst, off) == [ty |-> "datetime", wall |-> inst + off, aware |-> TRUE, off |-> off]
Naive(wall) == [ty |-> "datetime", wall |-> wall, aware |-> FALSE, off |-> 0]
DateOnly(wall) == [ty |-> "date", wall |-> wall, aware |-> FALSE, off |-> 0]

Instant(dt) == dt.wall - dt.off

\* timezone.localize(dt): attach the configured zone, wall clock unchanged
Localize(dt) == [dt EXCEPT !.aware = TRUE, !.off = CfgOffset]

\* if isinstance(start, datetime) and start.tzinfo is None: start = timezone.localize(start)
NormalizeTimeConverting(dt) ==
    IF dt.ty # "datetime" THEN dt
    ELSE IF dt.aware
         THEN [dt EXCEPT !.wall = dt.wall - dt.off + CfgOffset, !.off = CfgOffset]
         ELSE [dt EXCEPT !.aware = TRUE, !.off = CfgOffset]
NormalizeTime(dt) ==
    IF dt.ty = "datetime" /\ ~dt.aware THEN Localize(dt) ELSE dt

\* dt + timedelta(seconds=d): wall clock moves, tzinfo is kept
PlusSeconds(dt, d) == [dt EXCEPT !.wall = dt.wall + d]

\* dt.isoformat() of an aware datetime: the wall-clock fields and the offset
IsoFormat(dt) == [wall |-> dt.wall, off |-> dt.off]

\* datetime.fromisoformat(s.replace('Z', '+00:00'))
FromIsoFormat(s) == [ty |-> "datetime", wall |-> s.wall, aware |-> TRUE, off |-> s.off]

\* (a - b).total_seconds() of two aware datetimes
TotalSeconds(a, b) == Instant(a) - Instant(b)

----
(* The remote calendar (Remote Store Client).  A stored event is           *)
(* [summary, start, end, timed]: start and end are instants; timed is      *)
(* FALSE for an all-day event, whose start has no dateTime.                *)

\* the store reads an RFC 3339 dateTime as an instant
StoreInstant(s) == s.wall - s.off

\* what the store keeps of a payload
StoredEvent(body) ==
    [summary |-> body.summary,
     start |-> StoreInstant(body.start),
     end |-> StoreInstant(body.end),
     timed |-> TRUE]

\* the dateTime string the store returns for a timed event (UTC, "Z")
StoreDateTime(inst) == [wall |-> inst, off |-> 0]

\* the ids whose start lies in [timeMin, timeMax]
StoreWindow(rem, tmin, tmax) ==
    {id \in DOMAIN rem :
        /\ StoreInstant(tmin) <= rem[id].start
        /\ rem[id].start <= StoreInstant(tmax)}

MinStart(rem, W) ==
    LET first == CHOOSE id \in W : \A o \in W : rem[id].start <= rem[o].start
    IN rem[first].start

\* orderBy=startTime, maxResults=n: every ascending order of the window
\* (events with equal starts come in any order), cut to the first n
RECURSIVE SortedPrefixes(_, _, _)
SortedPrefixes(rem, W, n) ==
    IF W = {} \/ n = 0 THEN {<<>>}
    ELSE LET m == MinStart(rem, W)
             G == {id \in W : rem[id].start = m}
         IN UNION {{<<g>> \o rest : rest \in SortedPrefixes(rem, W \ {g}, n - 1)} : g \in G}

\* events().list(timeMin, timeMax, singleEvents=True, maxResults, orderBy="startTime")
StoreList(rem, tmin, tmax, maxResults) ==
    SortedPrefixes(rem, StoreWindow(rem, tmin, tmax), maxResults)

\* events().insert(body): a new event with a fresh id
StoreInsert(rem, body) == Append(rem, StoredEvent(body))

\* events().update(eventId, body): the event's fields are replaced
StoreUpdate(rem, id, body) == [rem EXCEPT ![id] = StoredEvent(body)]

----
(* upload_events_to_gcal of the GUI application (src/sync.py)              *)

\* g_event
Payload(ev, start, end) ==
    [summary |-> ev.summary,
     start |-> IsoFormat(start),
     end |-> IsoFormat(end)]

\* the test of the matching loop for one candidate e:
\*   estart present, abs((start - estart_dt).total_seconds()) <= 18000
\*   and e.get('summary') == event['summary']
QualifiesAnySummary(rem, id, start, summary) ==
    /\ rem[id].timed
    /\ Abs(TotalSeconds(start, FromIsoFormat(StoreDateTime(rem[id].start)))) <= Tolerance
QualifiesStrictlyCloser(rem, id, start, summary) ==
    /\ rem[id].timed
    /\ Abs(TotalSeconds(start, FromIsoFormat(StoreDateTime(rem[id].start)))) < Tolerance
    /\ rem[id].summary = summary
Qualifies(rem, id, start, summary) ==
    /\ rem[id].timed
    /\ Abs(TotalSeconds(start, FromIsoFormat(StoreDateTime(rem[id].start)))) <= Tolerance
    /\ rem[id].summary = summary

\* for e in existing: ... matched = e; break   (0 when nothing matched)
MatchClosest(rem, cands, start, summary) ==
    LET hits == {k \in 1..Len(cands) : Qualifies(rem, cands[k], start, summary)}
        far(k) == Abs(TotalSeconds(start, FromIsoFormat(StoreDateTime(rem[cands[k]].start))))
        best == {k \in hits : \A j \in hits : far(k) <= far(j)}
    IN IF hits = {} THEN 0
       ELSE cands[CHOOSE k \in best : \A j \in best : k <= j]
MatchCandidate(rem, cands, start, summary) ==
    LET hits == {k \in 1..Len(cands) : Qualifies(rem, cands[k], start, summary)}
    IN IF hits = {} THEN 0
       ELSE cands[CHOOSE k \in hits : \A j \in hits : k <= j]

TimeMin(start) == IsoFormat(PlusSeconds(start, 0 - WindowPad))
TimeMax(end) == IsoFormat(PlusSeconds(end, WindowPad))

NoStats == [created |-> 0, updated |-> 0, errors |-> 0]

NoLast ==
    [idx |-> 0, summary |-> "", start |-> Aware(0, 0), end |-> Aware(0, 0),
     cands |-> <<>>, matched |-> 0, calls |-> <<>>, fault |-> "none",
     outcome |-> "none", before |-> <<>>, statsBefore |-> NoStats,
     body |-> [summary |-> "", start |-> IsoFormat(Aware(0, 0)),
               end |-> IsoFormat(Aware(0, 0))],
     window |-> <<IsoFormat(Aware(0, 0)), IsoFormat(Aware(0, 0))>>, written |-> 0]

\* stats["created"] += 1, stats["updated"] += 1
CountCreated(st) == [st EXCEPT !.created = @ + 1]
CountUpdated(st) == [st EXCEPT !.updated = @ + 1]

\* except Exception as ex: stats["errors"] += 1
CountErrorDropped(st) == st
CountError(st) == [st EXCEPT !.errors = @ + 1]

\* service.events().update(calendarId=..., eventId=matched['id'], body=g_event)
UpdateFirstCandidate(cands, matched) == cands[1]
UpdateId(cands, matched) == matched

\* an exception of get_calendar_service() or pytz.timezone() is not caught:
\* the loop is entered only when neither raised
AfterSetupDefaultZone(cfgFault) == IF cfgFault = "credentials" THEN "raised" ELSE "loop"
AfterSetup(cfgFault) == IF cfgFault = "none" THEN "loop" ELSE "raised"

\* the except clause swallows the exception: the loop goes on
AfterPassAbort(fault) == IF fault = "none" THEN "loop" ELSE "raised"
AfterPass(fault) == "loop"

\* One pass of the for loop over a datetime event, try block included.
\* fault names the store call that raises ("none", "list" or "write");
\* cands is the answer of the list call.  The result is the store, the
\* stats and the record of the pass.
Iteration(ev, i, rem, st, fault, cands) ==
    LET start == NormalizeTime(ev.start)
        end == NormalizeTime(ev.end)
        body == Payload(ev, start, end)
        matched == MatchCandidate(rem, cands, start, ev.summary)
        rec == [idx |-> i, summary |-> ev.summary, start |-> start, end |-> end,
                cands |-> cands, matched |-> 0, calls |-> <<"list">>, fault |-> fault,
                outcome |-> "error", before |-> rem, statsBefore |-> st,
                body |-> body, window |-> <<TimeMin(start), TimeMax(end)>>,
                written |-> 0]
    IN IF fault = "list"
       THEN [remote |-> rem,
             stats |-> CountError(st),
             last |-> [rec EXCEPT !.cands = <<>>]]
       ELSE IF matched # 0
       THEN IF fault = "write"
            THEN [remote |-> rem,
                  stats |-> CountError(st),
                  last |-> [rec EXCEPT !.matched = matched, !.calls = <<"list", "update">>]]
            ELSE [remote |-> StoreUpdate(rem, UpdateId(cands, matched), body),
                  stats |-> CountUpdated(st),
                  last |-> [rec EXCEPT !.matched = matched, !.calls = <<"list", "update">>,
                                       !.outcome = "updated",
                                       !.written = UpdateId(cands, matched)]]
       ELSE IF fault = "write"
            THEN [remote |-> rem,
                  stats |-> CountError(st),
                  last |-> [rec EXCEPT !.calls = <<"list", "insert">>]]
            ELSE [remote |-> StoreInsert(rem, body),
                  stats |-> CountCreated(st),
                  last |-> [rec EXCEPT !.calls = <<"list", "insert">>,
                                       !.outcome = "created",
                                       !.written = Len(rem) + 1]]

Faults == {"none", "list", "write"}

\* parse_ical gives a datetime.date for the DTSTART/DTEND of an all-day VEVENT
HasDate(ev) == ev.start.ty = "date" \/ ev.end.ty = "date"

\* the number of store calls that failed in this run
NFaults == Cardinality({k \in DOMAIN faultLog : faultLog[k] # "none"})

\* service = get_calendar_service(); timezone = pytz.timezone(cfg.TIMEZONE);
\* stats = {...}.  Either of the first two may raise (configuration fault).
Setup ==
    /\ pc = "start"
    /\ \E cfgFault \in {"none", "credentials", "timezone"} :
          /\ pc' = AfterSetup(cfgFault)
          /\ cause' = cfgFault
          /\ stats' = IF cfgFault = "none" THEN NoStats ELSE stats
    /\ UNCHANGED <<events, remote, run, idx, faultLog, writeLog, last, gvars, hvars, cvars>>

\* for event in events: one pass for an event whose start and end are datetimes
ProcessEvent ==
    /\ pc = "loop"
    /\ idx <= Len(events)
    /\ ~HasDate(events[idx])
    /\ LET ev == events[idx]
           start == NormalizeTime(ev.start)
           end == NormalizeTime(ev.end)
       IN \E fault \in Faults :
          \E cands \in StoreList(remote, TimeMin(start), TimeMax(end), MaxResults) :
             LET r == Iteration(ev, idx, remote, stats, fault, cands)
             IN /\ remote' = r.remote
                /\ stats' = r.stats
                /\ last' = r.last
                /\ faultLog' = Append(faultLog, fault)
                /\ writeLog' = Append(writeLog, r.last.written)
                /\ pc' = AfterPass(fault)
    /\ idx' = idx + 1
    /\ UNCHANGED <<events, run, cause, gvars, hvars, cvars>>

\* a date-only start or end: str(start.tzinfo) raises AttributeError while
\* g_event is built, outside the try block, and the call ends there
RaiseOnDate ==
    /\ pc = "loop"
    /\ idx <= Len(events)
    /\ HasDate(events[idx])
    /\ pc' = "raised"
    /\ cause' = "date"
    /\ UNCHANGED <<events, remote, run, idx, stats, faultLog, writeLog, last, gvars, hvars, cvars>>

\* return stats
Return ==
    /\ pc = "loop"
    /\ idx > Len(events)
    /\ pc' = "returned"
    /\ UNCHANGED <<events, remote, run, idx, stats, faultLog, writeLog, cause, last,
                   gvars, hvars, cvars>>

\* the caller runs upload_events_to_gcal again with the same events, after a
\* first run in which no store call failed
Rerun ==
    /\ pc = "returned"
    /\ run = 1
    /\ NFaults = 0
    /\ run' = 2
    /\ pc' = "start"
    /\ idx' = 1
    /\ last' = NoLast
    /\ faultLog' = <<>>
    /\ writeLog' = <<>>
    /\ UNCHANGED <<events, remote, stats, cause, gvars, hvars, cvars>>

----
(* Config and its .env text (src/sync.py).  A text is the sequence of its  *)
(* lines and whether a newline ends it; a line KEY=value is <<KEY, value>>. *)
(* The values of the settings hold no "=".                                 *)

\* 'true' if b else 'false'
BoolText(b) == IF b THEN "true" ELSE "false"

\* "\n".join(lines)
JoinLines(lines) == [lines |-> lines, newline |-> FALSE]

\* text + "\n"
PlusNewline(text) == [text EXCEPT !.newline = TRUE]

\* Config.to_env()
ToEnv(c) ==
    PlusNewline(JoinLines(
        <<<<"HUMANFORCE_URL", c.HUMANFORCE_URL>>,
          <<"USERNAME", c.USERNAME>>,
          <<"PASSWORD", c.PASSWORD>>,
          <<"DOWNLOAD_DIR", c.DOWNLOAD_DIR>>,
          <<"CALENDAR_ID", c.CALENDAR_ID>>,
          <<"TIMEZONE", c.TIMEZONE>>,
          <<"DAILY_SYNC_ENABLED", BoolText(c.DAILY_SYNC_ENABLED)>>,
          <<"DAILY_SYNC_HOUR", c.DAILY_SYNC_HOUR>>,
          <<"DARK_MODE", BoolText(c.DARK_MODE)>>>>))

\* key + "=" in text
HasEntry(text, key) == \E k \in DOMAIN text.lines : text.lines[k][1] = key

\* Config(): the defaults of __init__
DefaultConfig ==
    [HUMANFORCE_URL |-> "https://maroondah.humanforce.com", USERNAME |-> "",
     PASSWORD |-> "", DOWNLOAD_DIR |-> "downloads", CALENDAR_ID |-> "",
     TIMEZONE |-> "Australia/Melbourne", DAILY_SYNC_ENABLED |-> FALSE,
     DAILY_SYNC_HOUR |-> 7, DARK_MODE |-> FALSE]

\* the Config objects of the runs: the defaults, the settings of the self
\* test, and mixtures of the two
Configs ==
    [HUMANFORCE_URL : {"https://maroondah.humanforce.com", "https://example.com"},
     USERNAME : {"", "u"},
     PASSWORD : {"", "p"},
     DOWNLOAD_DIR : {"downloads", "/tmp/dl"},
     CALENDAR_ID : {"", "cal"},
     TIMEZONE : {"Australia/Melbourne"},
     DAILY_SYNC_ENABLED : BOOLEAN,
     DAILY_SYNC_HOUR : {6, 7},
     DARK_MODE : BOOLEAN]

NoText == [lines |-> <<>>, newline |-> FALSE]

\* App._save(): the fields of cfg are set from the form, then cfg.save()
\* writes cfg.to_env() to .env
SaveSettings ==
    /\ \E c \in Configs :
          /\ cfg' = c
          /\ envFile' = [written |-> TRUE, text |-> ToEnv(c)]
    /\ UNCHANGED <<rvars, gvars, hvars, tokenFile, credFile, auth>>

----
(* get_calendar_service (src/sync.py).  A file is [exists, text]; the      *)
(* texts are the empty text, text that is no JSON, a JSON object that is   *)
(* no authorized-user record, and the records of expired and of valid      *)
(* credentials.                                                            *)

MaxAuthCalls == 2

Texts == {"", "garbage", "{}", "expired", "valid"}

\* json.load(f) does not raise
JsonParses(text) == text \notin {"", "garbage"}

File(exists, text) == [exists |-> exists, text |-> text]

\* _is_valid_json_file(path)
IsValidJsonFileByExistence(file) == file.exists
IsValidJsonFile(file) ==
    IF ~file.exists THEN FALSE
    ELSE JsonParses(file.text)

\* Credentials.from_authorized_user_file: none when it raises or was not called
LoadCreds(file) ==
    IF file.text \in {"expired", "valid"} THEN file.text ELSE "none"

NoAuth ==
    [n |-> 0, tokenBefore |-> File(FALSE, ""), credBefore |-> File(FALSE, ""),
     removeTried |-> FALSE, removed |-> FALSE, flowStarted |-> FALSE,
     outcome |-> "none", log |-> <<>>]

\* get_calendar_service().  removeOk: os.remove(TOKEN_PATH) does not raise;
\* flowOk: the OAuth flow returns credentials; writeOk: token.json can be
\* written.
GetCalendarService ==
    /\ auth.n < MaxAuthCalls
    /\ \E removeOk \in BOOLEAN, flowOk \in BOOLEAN, writeOk \in BOOLEAN :
          LET valid == IsValidJsonFile(tokenFile)
              creds == IF valid THEN LoadCreds(tokenFile) ELSE "none"
              bad == ~valid /\ tokenFile.exists
              log1 == IF valid /\ creds = "none" THEN <<"token.json could not be parsed">>
                      ELSE IF bad /\ removeOk THEN <<"Deleting and re-authenticating">>
                      ELSE IF bad THEN <<"Deleting and re-authenticating",
                                         "Failed to remove invalid token.json">>
                      ELSE <<>>
              token1 == IF bad /\ removeOk THEN File(FALSE, "") ELSE tokenFile
              needFlow == creds # "valid"
              credOk == IsValidJsonFile(credFile)
              flowRuns == needFlow /\ credOk
              wrote == flowRuns /\ flowOk /\ writeOk
              rec == [n |-> auth.n + 1, tokenBefore |-> tokenFile, credBefore |-> credFile,
                      removeTried |-> bad, removed |-> bad /\ removeOk,
                      flowStarted |-> flowRuns,
                      outcome |-> IF ~needFlow THEN "service"
                                  ELSE IF ~credOk THEN "FileNotFoundError"
                                  ELSE IF ~flowOk THEN "flow_error"
                                  ELSE "service",
                      log |-> IF flowRuns /\ flowOk /\ ~writeOk
                              THEN Append(log1, "failed to write token.json")
                              ELSE log1]
          IN /\ tokenFile' = IF wrote THEN File(TRUE, "valid") ELSE token1
             /\ auth' = rec
    /\ UNCHANGED <<rvars, gvars, hvars, cfg, envFile, credFile>>

\* the user puts another credentials.json next to the script, or the
\* stored token expires
ReplaceCredentials ==
    /\ auth.n < MaxAuthCalls
    /\ \/ /\ \E f \in {File(TRUE, "{}"), File(TRUE, ""), File(FALSE, "")} : credFile' = f
          /\ credFile' # credFile
          /\ UNCHANGED tokenFile
       \/ /\ tokenFile = File(TRUE, "valid")
          /\ tokenFile' = File(TRUE, "expired")
          /\ UNCHANGED credFile
    /\ UNCHANGED <<rvars, gvars, hvars, cfg, envFile, auth>>

----
(* Inputs *)

SourceEvent(summary, start, end) == [summary |-> summary, start |-> start, end |-> end]

\* The source events the runs are made of: shifts "A" at the base time, 4 and
\* 8 hours later (zoned, naive, zoned), a shift "B" at the base time, and an
\* all-day "A".
EventChoices ==
    {SourceEvent("A", Aware(BaseTime, OtherOffset), Aware(BaseTime + ShiftLen, OtherOffset)),
     SourceEvent("A", Naive(BaseTime + 4 * HourSecs + CfgOffset),
                      Naive(BaseTime + 4 * HourSecs + ShiftLen + CfgOffset)),
     SourceEvent("A", Aware(BaseTime + 8 * HourSecs, OtherOffset),
                      Aware(BaseTime + 8 * HourSecs + ShiftLen, OtherOffset)),
     SourceEvent("B", Aware(BaseTime, CfgOffset), Aware(BaseTime + ShiftLen, CfgOffset)),
     SourceEvent("A", DateOnly(BaseTime), DateOnly(BaseTime + 24 * HourSecs))}

SeqsUpTo(S, n) == UNION {[1..k -> S] : k \in 0..n}

RemoteEvent(summary, start, timed) ==
    [summary |-> summary, start |-> start, end |-> start + ShiftLen, timed |-> timed]

\* Remote events around the base time: "A" exactly Tolerance before and
\* after it, Tolerance + 1 before and after it, at it, an all-day "A" and a "B".
RemoteChoices ==
    <<RemoteEvent("A", BaseTime - Tolerance, TRUE),
      RemoteEvent("A", BaseTime + Tolerance, TRUE),
      RemoteEvent("A", BaseTime + Tolerance + 1, TRUE),
      RemoteEvent("A", BaseTime - Tolerance - 1, TRUE),
      RemoteEvent("B", BaseTime, TRUE),
      RemoteEvent("A", BaseTime, FALSE),
      RemoteEvent("A", BaseTime, TRUE)>>

\* MaxResults other events ("F") that start shortly before the base time
Fillers == [k \in 1..MaxResults |-> RemoteEvent("F", BaseTime - 1000 + k, TRUE)]

RECURSIVE PickChoices(_)
PickChoices(S) ==
    IF S = {} THEN <<>>
    ELSE LET k == CHOOSE x \in S : \A y \in S : x <= y
         IN <<RemoteChoices[k]>> \o PickChoices(S \ {k})

\* calendars of at most n of the remote choices, alone or after the fillers
StoresUpTo(n) ==
    LET picks == {S \in SUBSET (1..Len(RemoteChoices)) : Cardinality(S) <= n}
    IN {PickChoices(S) : S \in picks} \cup {Fillers \o PickChoices(S) : S \in picks}

\* the frontend and the history at rest
GuiIdle == buttons = TRUE /\ workers = <<>>
\* the settings and the credential files at rest
FilesIdle ==
    /\ cfg = DefaultConfig
    /\ envFile = [written |-> FALSE, text |-> NoText]
    /\ tokenFile = File(FALSE, "")
    /\ credFile = File(FALSE, "")
    /\ auth = NoAuth

HistIdle ==
    /\ histFile = [exists |-> FALSE, parses |-> FALSE, top |-> "array", doc |-> <<>>]
    /\ appended = <<>>
    /\ recResult = "none"
    /\ recorders = <<>>
    /\ report = [n |-> 0, mode |-> "none", synced |-> FALSE,
                 stats |-> [created |-> 0, updated |-> 0, errors |-> 0],
                 saveFailed |-> FALSE, outcome |-> "none"]

InitRun(eventSeqs, stores) ==
    /\ events \in eventSeqs
    /\ remote \in stores
    /\ pc = "start"
    /\ run = 1
    /\ idx = 1
    /\ stats = NoStats
    /\ faultLog = <<>>
    /\ writeLog = <<>>
    /\ cause = "none"
    /\ last = NoLast
    /\ GuiIdle
    /\ FilesIdle
    /\ HistIdle

NextRun ==
    \/ Setup
    \/ ProcessEvent
    \/ RaiseOnDate
    \/ Return
    \/ Rerun

\* runs over up to MaxEvents events against an empty calendar or one that
\* holds the first shift
Init == InitRun(SeqsUpTo(EventChoices, MaxEvents), {<<>>, <<RemoteChoices[7]>>})

Next == NextRun

Spec == Init /\ [][Next]_vars

----
(* Claims about a run (Spec) *)

Total(st) == st.created + st.updated + st.errors

NormStart(ev) == Instant(NormalizeTime(ev.start))
NormEnd(ev) == Instant(NormalizeTime(ev.end))

\* C1: after a first run without store fault, a second run with the same
\* events that ends without store fault has created = 0 and updated = N.
C1_SecondRunCreatesNothing ==
    (pc = "returned" /\ run = 2 /\ NFaults = 0)
        => (stats.created = 0 /\ stats.updated = Len(events))

\* C2: when a run returns and no store call failed in it, the remote store
\* holds, for every source event, an event with the same summary whose start
\* and end are the source event's normalized start and end.
C2_CalendarReflectsRoster ==
    (pc = "returned" /\ NFaults = 0)
        => \A i \in 1..Len(events) :
              \E id \in DOMAIN remote :
                 /\ remote[id].summary = events[i].summary
                 /\ remote[id].start = NormStart(events[i])
                 /\ remote[id].end = NormEnd(events[i])

\* C4: the counters are non-negative; while the loop runs their sum is the
\* number of events processed so far, and the returned stats sum to N.
C4_CountersSumToProcessed ==
    /\ stats.created >= 0 /\ stats.updated >= 0 /\ stats.errors >= 0
    /\ pc = "loop" => Total(stats) = idx - 1
    /\ pc = "returned" => Total(stats) = Len(events)

C4_Witness ==
    /\ pc = "returned"
    /\ Len(events) = 3
    /\ stats.created = 1 /\ stats.updated = 1 /\ stats.errors = 1

----
(* Matching (SpecMatch): runs of a few events against calendars that hold   *)
(* up to MaxRemote of the remote choices, alone or after the fillers.      *)

SeqsFromTo(S, m, n) == UNION {[1..k -> S] : k \in m..n}

InitMatch == InitRun(SeqsFromTo(EventChoices, 1, MaxMatchEvents), StoresUpTo(MaxRemote))

SpecMatch == InitMatch /\ [][Next]_vars

\* distance in seconds between the start of the last pass' event and the
\* start of the remote event id as it was when the pass began
Distance(id) == Abs(Instant(last.start) - last.before[id].start)

InsertIssued == last.calls = <<"list", "insert">>

\* C3: an insert is issued for a source event only if, when its list call was
\* made, the store held no timed event with the same summary whose start is
\* within Tolerance of the source start.
C3_InsertOnlyIfUnrepresented ==
    InsertIssued =>
        \A id \in DOMAIN last.before :
            ~(/\ last.before[id].timed
              /\ last.before[id].summary = last.summary
              /\ Distance(id) <= Tolerance)

\* C7: the update target of a pass always has the source event's summary.
C7_MatchHasEqualSummary ==
    last.matched # 0 => last.before[last.matched].summary = last.summary

\* an update was made although a candidate with another summary, no further
\* away than Tolerance, came earlier in the list
C7_Witness ==
    /\ last.outcome = "updated"
    /\ \E k \in 1..Len(last.cands) :
          /\ last.cands[k] # last.matched
          /\ last.before[last.cands[k]].timed
          /\ last.before[last.cands[k]].summary # last.summary
          /\ Distance(last.cands[k]) = 0
          /\ Distance(last.matched) > 0
          /\ \E j \in 1..Len(last.cands) : k < j /\ last.cands[j] = last.matched

\* candidate k of the last pass passes the time and summary test
Eligible(k) ==
    /\ last.before[last.cands[k]].timed
    /\ last.before[last.cands[k]].summary = last.summary
    /\ Distance(last.cands[k]) <= Tolerance

\* C9: the update target is never further than Tolerance from the source
\* start (so never Tolerance + 1 away), and a candidate with the same summary
\* exactly Tolerance away is the target when no eligible candidate precedes it.
C9_ToleranceBound ==
    /\ last.matched # 0 => Distance(last.matched) <= Tolerance
    /\ \A id \in DOMAIN last.before :
          (last.before[id].summary = last.summary /\ Distance(id) = Tolerance + 1)
              => last.matched # id
    /\ \A k \in 1..Len(last.cands) :
          (/\ Eligible(k)
           /\ Distance(last.cands[k]) = Tolerance
           /\ \A j \in 1..(k - 1) : ~Eligible(j))
              => last.matched = last.cands[k]

\* the target is exactly Tolerance away and a same-summary candidate
\* Tolerance + 1 away was listed and passed over
C9_Witness ==
    /\ last.outcome = "updated"
    /\ Distance(last.matched) = Tolerance
    /\ \E k \in 1..Len(last.cands) :
          /\ last.before[last.cands[k]].summary = last.summary
          /\ last.before[last.cands[k]].timed
          /\ Distance(last.cands[k]) = Tolerance + 1

----
(* Store faults (SpecFaults): runs of up to MaxFaultEvents events against   *)
(* an empty calendar.                                                      *)

FaultEventChoices ==
    {ev \in EventChoices : NormStart(ev) = BaseTime \/ HasDate(ev)}

InitFaults == InitRun(SeqsUpTo(FaultEventChoices, MaxFaultEvents), {<<>>})

SpecFaults == InitFaults /\ [][Next]_vars

\* C6: a pass whose list, insert or update call failed adds exactly 1 to
\* errors and nothing to created and updated, issues no store call after the
\* failed one and leaves the store as it was; the loop goes on (a run that
\* has made a pass ends by raising only at a date-only event, never at a
\* store fault); and a run that returns has counted one error per failed
\* pass and one created or updated for every other event.
C6_FaultIsolated ==
    /\ (last.idx > 0 /\ last.fault # "none") =>
          /\ last.outcome = "error"
          /\ stats.errors = last.statsBefore.errors + 1
          /\ stats.created = last.statsBefore.created
          /\ stats.updated = last.statsBefore.updated
          /\ remote = last.before
          /\ idx = last.idx + 1
          /\ last.fault = "list" => last.calls = <<"list">>
          /\ last.fault = "write" => last.calls \in {<<"list", "insert">>, <<"list", "update">>}
    /\ (pc = "raised" /\ last.idx > 0) => (idx <= Len(events) /\ HasDate(events[idx]))
    /\ pc = "returned" =>
          /\ stats.errors = NFaults
          /\ stats.created + stats.updated = Len(events) - NFaults

\* five events, the insert of the second one failed, the other four counted
C6_Witness ==
    /\ pc = "returned"
    /\ Len(events) = 5
    /\ faultLog = <<"none", "write", "none", "none", "none">>
    /\ events[1].summary = "A" /\ events[2].summary = "B"
    /\ stats.errors = 1
    /\ stats.created + stats.updated = 4

----
(* upload_events_to_gcal of the standalone script (src/HumanForce_Sync.py) *)

ScriptTolerance == 18000
ScriptMaxResults == 5

\* if estart and eend: ... abs((start - estart_dt).total_seconds()) <= 18000
ScriptQualifies(rem, id, start) ==
    /\ rem[id].timed
    /\ Abs(TotalSeconds(start, FromIsoFormat(StoreDateTime(rem[id].start)))) <= ScriptTolerance

\* for e in existing: ... matched = e; break   (0 when nothing matched)
ScriptMatchCandidate(rem, cands, start) ==
    LET hits == {k \in 1..Len(cands) : ScriptQualifies(rem, cands[k], start)}
    IN IF hits = {} THEN 0
       ELSE cands[CHOOSE k \in hits : \A j \in hits : k <= j]

\* One pass of the script's for loop over a datetime event.  The script
\* keeps no stats.
ScriptIteration(ev, i, rem, st, fault, cands) ==
    LET start == NormalizeTime(ev.start)
        end == NormalizeTime(ev.end)
        body == Payload(ev, start, end)
        matched == ScriptMatchCandidate(rem, cands, start)
        rec == [idx |-> i, summary |-> ev.summary, start |-> start, end |-> end,
                cands |-> cands, matched |-> 0, calls |-> <<"list">>, fault |-> fault,
                outcome |-> "error", before |-> rem, statsBefore |-> st,
                body |-> body, window |-> <<IsoFormat(start), IsoFormat(end)>>,
                written |-> 0]
    IN IF fault = "list"
       THEN [remote |-> rem, last |-> [rec EXCEPT !.cands = <<>>]]
       ELSE IF matched # 0
       THEN IF fault = "write"
            THEN [remote |-> rem,
                  last |-> [rec EXCEPT !.matched = matched, !.calls = <<"list", "update">>]]
            ELSE [remote |-> StoreUpdate(rem, matched, body),
                  last |-> [rec EXCEPT !.matched = matched, !.calls = <<"list", "update">>,
                                       !.outcome = "updated", !.written = matched]]
       ELSE IF fault = "write"
            THEN [remote |-> rem,
                  last |-> [rec EXCEPT !.calls = <<"list", "insert">>]]
            ELSE [remote |-> StoreInsert(rem, body),
                  last |-> [rec EXCEPT !.calls = <<"list", "insert">>,
                                       !.outcome = "created", !.written = Len(rem) + 1]]

\* service = get_calendar_service(); timezone = pytz.timezone("Australia/Melbourne")
ScriptSetup ==
    /\ pc = "start"
    /\ \E cfgFault \in {"none", "credentials"} :
          /\ pc' = AfterSetup(cfgFault)
          /\ cause' = cfgFault
    /\ UNCHANGED <<events, remote, run, idx, stats, faultLog, writeLog, last, gvars, hvars, cvars>>

\* for event in events: the window of the list call is the event's own
\* [start, end]
ScriptProcessEvent ==
    /\ pc = "loop"
    /\ idx <= Len(events)
    /\ ~HasDate(events[idx])
    /\ LET ev == events[idx]
           start == NormalizeTime(ev.start)
           end == NormalizeTime(ev.end)
       IN \E fault \in Faults :
          \E cands \in StoreList(remote, IsoFormat(start), IsoFormat(end), ScriptMaxResults) :
             LET r == ScriptIteration(ev, idx, remote, stats, fault, cands)
             IN /\ remote' = r.remote
                /\ last' = r.last
                /\ faultLog' = Append(faultLog, fault)
                /\ writeLog' = Append(writeLog, r.last.written)
    /\ idx' = idx + 1
    /\ UNCHANGED <<events, pc, run, stats, cause, gvars, hvars, cvars>>

\* the end of the loop, and so of the script
ScriptReturn ==
    /\ pc = "loop"
    /\ idx > Len(events)
    /\ pc' = "returned"
    /\ UNCHANGED <<events, remote, run, idx, stats, faultLog, writeLog, cause, last,
                   gvars, hvars, cvars>>

ScriptNext ==
    \/ ScriptSetup
    \/ ScriptProcessEvent
    \/ RaiseOnDate
    \/ ScriptReturn

SpecScript == InitMatch /\ [][ScriptNext]_vars

\* C8: the script issues an update only against a remote event whose summary
\* is the source event's summary.
C8_ScriptUpdateHasEqualSummary ==
    last.calls = <<"list", "update">>
        => last.before[last.matched].summary = last.summary

----
(* The Tk frontend (class App of src/sync.py): button handlers run on the   *)
(* main thread and start worker threads; a worker is [kind, at] with at     *)
(* "started" (thread running, before _set_busy(True)), "busy" (after it,    *)
(* in the body of the try block) or "done" (after the finally block).      *)

Worker(kind) == [kind |-> kind, at |-> "started"]

\* _set_busy(busy): every button of disable_while_busy is disabled (busy) or
\* set back to normal (not busy)
SetBusy(busy) == ~busy

\* threading.Thread(target=worker, daemon=True).start()
StartWorker(kind) ==
    /\ Len(workers) < MaxWorkers
    /\ workers' = Append(workers, Worker(kind))
    /\ UNCHANGED <<buttons, rvars, hvars, cvars>>

\* _sync_now: command of btn_sync, which is in disable_while_busy
SyncNow == buttons /\ StartWorker("sync")

\* _test_download: command of btn_test, which is in disable_while_busy
TestDownload == buttons /\ StartWorker("test")

\* _one_click_install: command of btn_install, which is not in
\* disable_while_busy and so is never disabled
OneClickInstall == StartWorker("install")

\* worker(): self._set_busy(True, ...), the first statement of the try block
WorkerBegin ==
    \E w \in DOMAIN workers :
        /\ workers[w].at = "started"
        /\ workers' = [workers EXCEPT ![w].at = "busy"]
        /\ buttons' = SetBusy(TRUE)
        /\ UNCHANGED <<rvars, hvars, cvars>>

\* worker(): the body ends, normally or by an exception, and the finally
\* block runs self._set_busy(False, "Idle")
WorkerEnd ==
    \E w \in DOMAIN workers :
        /\ workers[w].at = "busy"
        /\ workers' = [workers EXCEPT ![w].at = "done"]
        /\ buttons' = SetBusy(FALSE)
        /\ UNCHANGED <<rvars, hvars, cvars>>

RunIdle == InitRun({<<>>}, {<<>>})

InitGui == RunIdle

NextGui ==
    \/ SyncNow
    \/ TestDownload
    \/ OneClickInstall
    \/ WorkerBegin
    \/ WorkerEnd

SpecGui == InitGui /\ [][NextGui]_vars

\* the sync workers that are inside do_sync
RunningSyncs == {w \in DOMAIN workers : workers[w].kind = "sync" /\ workers[w].at = "busy"}

\* C5: at no time are two reconcile runs (sync workers) executing.
C5_SingleFlight == Cardinality(RunningSyncs) <= 1

----
(* The run history (src/sync.py).  history.json is                         *)
(* [exists, parses, top, doc]: whether the file is there, whether          *)
(* json.load accepts its text, the kind of the top-level JSON value        *)
(* (array, object, scalar) and, for an array, the JSON it holds: one JSON  *)
(* object per record, an object being the sequence of its <<key, value>>   *)
(* members.  A Python value read from it is [type, items].                 *)

HISTORY_MAX == 100

\* a history record as _record_history builds it
HistoryRecord(time, st, note) ==
    [time |-> time, created |-> st.created, updated |-> st.updated,
     errors |-> st.errors, note |-> note]

\* json.dump of one record: its members in insertion order
JsonObject(rec) ==
    <<<<"time", rec.time>>, <<"created", rec.created>>, <<"updated", rec.updated>>,
      <<"errors", rec.errors>>, <<"note", rec.note>>>>

JsonDump(entries) == [k \in 1..Len(entries) |-> JsonObject(entries[k])]

\* the value of member key of a JSON object
Member(obj, key) ==
    LET k == CHOOSE j \in 1..Len(obj) : obj[j][1] = key
    IN obj[k][2]

\* json.load of one object: the dict of its members
JsonDict(obj) ==
    [time |-> Member(obj, "time"), created |-> Member(obj, "created"),
     updated |-> Member(obj, "updated"), errors |-> Member(obj, "errors"),
     note |-> Member(obj, "note")]

JsonLoad(doc) == [k \in 1..Len(doc) |-> JsonDict(doc[k])]

\* a Python list
PyList(items) == [type |-> "list", items |-> items]

\* _load_history(): [] for a missing file and when json.load raises,
\* otherwise whatever json.load returns
LoadHistory(file) ==
    IF ~file.exists THEN PyList(<<>>)
    ELSE IF ~file.parses THEN PyList(<<>>)
    ELSE IF file.top = "array" THEN PyList(JsonLoad(file.doc))
    ELSE [type |-> file.top, items |-> <<>>]

\* entries[-HISTORY_MAX:]
KeepOldest(entries) ==
    IF Len(entries) <= HISTORY_MAX THEN entries ELSE SubSeq(entries, 1, HISTORY_MAX)
KeepLatest(entries) ==
    IF Len(entries) <= HISTORY_MAX THEN entries
    ELSE SubSeq(entries, Len(entries) - HISTORY_MAX + 1, Len(entries))

\* _save_history(entries): the file as it is after the call
SaveHistory(entries) ==
    [exists |-> TRUE, parses |-> TRUE, top |-> "array",
     doc |-> JsonDump(KeepLatest(entries))]

MissingFile == [exists |-> FALSE, parses |-> FALSE, top |-> "array", doc |-> <<>>]

\* a file whose text json.load rejects: empty, or cut short
BrokenFile == [exists |-> TRUE, parses |-> FALSE, top |-> "array", doc |-> <<>>]

\* a failure of _save_history: open(HISTORY_PATH, "w") raises and the file
\* is as before, or json.dump raises after open truncated the file
SaveFaults == {"none", "open", "write"}

\* hist = _load_history(); hist.append(rec); _save_history(hist): the file
\* after the three statements and whether they raised.  append raises
\* AttributeError when hist is not a list.
RecordOp(file, rec, saveFault) ==
    LET hist == LoadHistory(file)
    IN IF hist.type # "list" THEN [file |-> file, result |-> "raised"]
       ELSE IF saveFault = "open" THEN [file |-> file, result |-> "raised"]
       ELSE IF saveFault = "write" THEN [file |-> BrokenFile, result |-> "raised"]
       ELSE [file |-> SaveHistory(Append(hist.items, rec)), result |-> "saved"]

NoReport ==
    [n |-> 0, mode |-> "none", synced |-> FALSE, stats |-> NoStats,
     saveFailed |-> FALSE, outcome |-> "none"]

\* the stats and note of a recorded run: a clean run and one with errors
RunNotes ==
    {[stats |-> [created |-> 1, updated |-> 2, errors |-> 0], note |-> "ok"],
     [stats |-> [created |-> 0, updated |-> 1, errors |-> 1], note |-> "with errors"]}

\* _record_history(stats, note): hist = _load_history(); hist.append({...});
\* _save_history(hist).  The time of a record is the clock when it is made.
\* Runs with errors are among the first MaxErrorRunAt recorded runs.
RecordHistory ==
    /\ Len(appended) < MaxRecords
    /\ \E r \in RunNotes :
          /\ r.stats.errors > 0 => Len(appended) < MaxErrorRunAt
          /\ LET rec == HistoryRecord(Len(appended) + 1, r.stats, r.note)
                 op == RecordOp(histFile, rec, "none")
             IN /\ histFile' = op.file
                /\ recResult' = op.result
                /\ appended' = IF op.result = "saved" THEN Append(appended, rec)
                                ELSE appended
    /\ UNCHANGED <<rvars, gvars, report, recorders, cvars>>

\* the history starts from a missing file or an empty one (no JSON in it)
InitHistory ==
    /\ events = <<>> /\ remote = <<>> /\ pc = "start" /\ run = 1 /\ idx = 1
    /\ stats = NoStats /\ faultLog = <<>> /\ writeLog = <<>> /\ cause = "none"
    /\ last = NoLast
    /\ GuiIdle
    /\ FilesIdle
    /\ histFile \in {MissingFile, BrokenFile}
    /\ appended = <<>>
    /\ recResult = "none"
    /\ recorders = <<>>
    /\ report = NoReport

NextHistory == RecordHistory

SpecHistory == InitHistory /\ [][NextHistory]_vars

LastN(seq, n) == IF Len(seq) <= n THEN seq ELSE SubSeq(seq, Len(seq) - n + 1, Len(seq))

\* C10: after k record operations from an empty or missing store,
\* _load_history returns the last min(k, HISTORY_MAX) appended records in
\* append order; a list of at most HISTORY_MAX records is read back as it
\* was saved.
C10_HistoryBounded ==
    /\ LoadHistory(histFile) = PyList(LastN(appended, HISTORY_MAX))
    /\ Len(appended) <= HISTORY_MAX => LoadHistory(SaveHistory(appended)) = PyList(appended)

\* two records more than the cap were appended: the file holds the cap, the
\* oldest kept is the third
C10_Witness ==
    /\ Len(appended) = HISTORY_MAX + 2
    /\ Len(LoadHistory(histFile).items) = HISTORY_MAX
    /\ LoadHistory(histFile).items[1].time = 3
    /\ LoadHistory(histFile).items[HISTORY_MAX].time = HISTORY_MAX + 2

----
(* Reading a history file that is not a stored history *)

\* parseable JSON whose top-level value is no array: {} or 0
ForeignFiles ==
    {[exists |-> TRUE, parses |-> TRUE, top |-> "object", doc |-> <<>>],
     [exists |-> TRUE, parses |-> TRUE, top |-> "scalar", doc |-> <<>>]}

NotStoredHistory(file) == ~file.exists \/ ~file.parses \/ file.top # "array"

InitCorrupt ==
    /\ events = <<>> /\ remote = <<>> /\ pc = "start" /\ run = 1 /\ idx = 1
    /\ stats = NoStats /\ faultLog = <<>> /\ writeLog = <<>> /\ cause = "none"
    /\ last = NoLast
    /\ GuiIdle
    /\ FilesIdle
    /\ histFile \in {MissingFile, BrokenFile} \cup ForeignFiles
    /\ appended = <<>>
    /\ recResult = "none"
    /\ recorders = <<>>
    /\ report = NoReport

SpecCorrupt == InitCorrupt /\ [][NextHistory]_vars

\* C11: for a missing file and for any content that is not a stored history
\* (unparseable text, or JSON that is not a sequence of records)
\* _load_history returns the empty list, and the record operation that
\* follows does not raise.
C11_CorruptStoreReadsEmpty ==
    /\ NotStoredHistory(histFile) => LoadHistory(histFile) = PyList(<<>>)
    /\ recResult # "raised"

----
(* A sync run and its history record: the worker of _sync_now and the      *)
(* --sync branch of main.  report is what the caller of the run gets:      *)
(* completed (with the stats of do_sync), sync_error (the except branch    *)
(* of the worker) or uncaught (the exception leaves the worker or main).   *)

MaxSyncRuns == 2

\* the record of the except branch of the worker
ExceptionStats == [created |-> 0, updated |-> 0, errors |-> 1]

\* do_sync returns the stats of a run, or raises
SyncResults == {[ok |-> TRUE, run |-> r] : r \in RunNotes}
                   \cup {[ok |-> FALSE, run |-> [stats |-> NoStats, note |-> ""]]}

\* worker() of _sync_now: try: stats = do_sync(...); _record_history(stats, note)
\* except Exception: _record_history({... errors: 1}, "exception: ...");
\* log "Sync error"; messagebox.  An exception raised inside the except
\* branch leaves the worker.
SyncWorker ==
    /\ report.n < MaxSyncRuns
    /\ \E res \in SyncResults, f1 \in SaveFaults, f2 \in SaveFaults :
          LET time == Len(appended) + 1
              rec1 == HistoryRecord(time, res.run.stats, res.run.note)
              op1 == IF res.ok THEN RecordOp(histFile, rec1, f1)
                     ELSE [file |-> histFile, result |-> "raised"]
              rec2 == HistoryRecord(time, ExceptionStats, "exception")
              op2 == RecordOp(op1.file, rec2, f2)
              rep == [n |-> report.n + 1, mode |-> "gui", synced |-> res.ok,
                      stats |-> res.run.stats,
                      saveFailed |-> res.ok /\ op1.result = "raised",
                      outcome |-> "completed"]
          IN IF op1.result = "saved"
             THEN /\ histFile' = op1.file
                  /\ appended' = Append(appended, rec1)
                  /\ recResult' = "saved"
                  /\ report' = rep
             ELSE /\ histFile' = op2.file
                  /\ appended' = IF op2.result = "saved" THEN Append(appended, rec2)
                                  ELSE appended
                  /\ recResult' = op2.result
                  /\ report' = [rep EXCEPT !.outcome = IF op2.result = "saved"
                                                       THEN "sync_error" ELSE "uncaught"]
    /\ UNCHANGED <<rvars, gvars, recorders, cvars>>

\* main() with --sync: stats = asyncio.run(do_sync(...)); hist = _load_history();
\* hist.append({... "note": "headless"}); _save_history(hist); return.
\* Nothing is caught.
HeadlessSync ==
    /\ report.n < MaxSyncRuns
    /\ \E res \in SyncResults, f \in SaveFaults :
          LET rec == HistoryRecord(Len(appended) + 1, res.run.stats, "headless")
              op == IF res.ok THEN RecordOp(histFile, rec, f)
                    ELSE [file |-> histFile, result |-> "none"]
          IN /\ histFile' = op.file
             /\ appended' = IF op.result = "saved" THEN Append(appended, rec) ELSE appended
             /\ recResult' = op.result
             /\ report' = [n |-> report.n + 1, mode |-> "headless", synced |-> res.ok,
                           stats |-> res.run.stats,
                           saveFailed |-> op.result = "raised",
                           outcome |-> IF op.result = "saved" THEN "completed"
                                       ELSE "uncaught"]
    /\ UNCHANGED <<rvars, gvars, recorders, cvars>>

NextSyncRun ==
    \/ SyncWorker
    \/ HeadlessSync

SpecSyncRun == InitHistory /\ [][NextSyncRun]_vars

\* C12: when do_sync returned stats and the history record that follows
\* raised, the run is still reported as completed with those stats: the
\* worker does not take its "Sync error" branch and main --sync does not end
\* with an uncaught exception.
C12_WriteFailureKeepsRun ==
    (report.synced /\ report.saveFailed) => report.outcome = "completed"

----
(* Saving the settings *)

InitConfig ==
    /\ events = <<>> /\ remote = <<>> /\ pc = "start" /\ run = 1 /\ idx = 1
    /\ stats = NoStats /\ faultLog = <<>> /\ writeLog = <<>> /\ cause = "none"
    /\ last = NoLast
    /\ buttons = TRUE /\ workers = <<>>
    /\ HistIdle
    /\ cfg \in Configs
    /\ envFile = [written |-> FALSE, text |-> NoText]
    /\ tokenFile = File(FALSE, "")
    /\ credFile = File(FALSE, "")
    /\ auth = NoAuth

NextConfig == SaveSettings

SpecConfig == InitConfig /\ [][NextConfig]_vars

\* the settings the self test looks for in the text
ExpectedKeys ==
    {"HUMANFORCE_URL", "USERNAME", "PASSWORD", "DOWNLOAD_DIR", "CALENDAR_ID", "TIMEZONE",
     "DAILY_SYNC_ENABLED", "DAILY_SYNC_HOUR", "DARK_MODE", "ENABLE_TRAY", "START_MINIMIZED"}

\* C14: the text of Config.to_env() ends with a newline and has a KEY= entry
\* for each of the eleven settings, ENABLE_TRAY and START_MINIMIZED included.
C14_ToEnvHasEverySetting ==
    envFile.written =>
        /\ envFile.text = ToEnv(cfg)
        /\ envFile.text.newline
        /\ \A key \in ExpectedKeys : HasEntry(envFile.text, key)

----
(* Authentication *)

InitAuth ==
    /\ events = <<>> /\ remote = <<>> /\ pc = "start" /\ run = 1 /\ idx = 1
    /\ stats = NoStats /\ faultLog = <<>> /\ writeLog = <<>> /\ cause = "none"
    /\ last = NoLast
    /\ buttons = TRUE /\ workers = <<>>
    /\ HistIdle
    /\ cfg = DefaultConfig
    /\ envFile = [written |-> FALSE, text |-> NoText]
    /\ tokenFile \in {File(FALSE, "")} \cup {File(TRUE, t) : t \in Texts}
    /\ credFile \in {File(FALSE, ""), File(TRUE, ""), File(TRUE, "garbage"), File(TRUE, "{}")}
    /\ auth = NoAuth

NextAuth ==
    \/ GetCalendarService
    \/ ReplaceCredentials

SpecAuth == InitAuth /\ [][NextAuth]_vars

\* token.json was there at the call and json.load rejects it
BadTokenBefore == auth.tokenBefore.exists /\ ~JsonParses(auth.tokenBefore.text)

\* credentials.json was there at the call and holds JSON
CredOkBefore == auth.credBefore.exists /\ JsonParses(auth.credBefore.text)

\* the call wrote msg to the log
Logged(msg) == \E k \in DOMAIN auth.log : auth.log[k] = msg

\* _is_valid_json_file on the four kinds of file
ValidJsonFileTable ==
    /\ ~IsValidJsonFile(File(FALSE, ""))
    /\ ~IsValidJsonFile(File(TRUE, ""))
    /\ ~IsValidJsonFile(File(TRUE, "garbage"))
    /\ IsValidJsonFile(File(TRUE, "{}"))

----
(* Claims about configuration faults, normalisation and the writes of a run *)

ConfigFaults == {"credentials", "timezone"}

\* C13: when get_calendar_service() or pytz.timezone(cfg.TIMEZONE) raises,
\* upload_events_to_gcal raises to its caller: no pass of the loop is made, so
\* no list, insert or update call is issued, and no stats are returned.
C13_ConfigFaultAbortsBeforeAnyCall ==
    cause \in ConfigFaults =>
        /\ pc = "raised"
        /\ idx = 1
        /\ faultLog = <<>>
        /\ writeLog = <<>>
        /\ last = NoLast

\* the timezone does not resolve in the second run, over a calendar that the
\* first run filled
C13_Witness ==
    /\ cause = "timezone"
    /\ pc = "raised"
    /\ run = 2
    /\ Len(events) >= 1
    /\ Len(remote) >= 1

\* what isoformat() gives for a wall clock and an offset
IsoOf(wall, off) == [wall |-> wall, off |-> off]

\* the zone under which a source time is sent: its own, or the configured one
ZoneOf(dt) == IF dt.aware THEN dt.off ELSE CfgOffset

\* C16: normalisation never converts and is idempotent.  The start and end of
\* the last processed event went into the payload with the wall clock of the
\* source and its own zone (the configured zone when it had none), the
\* window bounds are that wall clock moved by WindowPad under the same zone,
\* and normalising the normalised times changes nothing.
C16_NormalizationAttachesZone ==
    last.idx > 0 =>
        LET ev == events[last.idx]
        IN /\ last.body.start = IsoOf(ev.start.wall, ZoneOf(ev.start))
           /\ last.body.end = IsoOf(ev.end.wall, ZoneOf(ev.end))
           /\ last.window[1] = IsoOf(ev.start.wall - WindowPad, ZoneOf(ev.start))
           /\ last.window[2] = IsoOf(ev.end.wall + WindowPad, ZoneOf(ev.end))
           /\ ev.start.aware => last.start = ev.start
           /\ ev.end.aware => last.end = ev.end
           /\ NormalizeTime(last.start) = last.start
           /\ NormalizeTime(last.end) = last.end

\* a naive event was written after an event that carries another zone
C16_Witness ==
    /\ last.idx = 2
    /\ ~events[2].start.aware
    /\ events[1].start.aware
    /\ events[1].start.off # CfgOffset
    /\ last.outcome # "error"
    /\ writeLog[1] # 0

\* C17: within one run no remote event is written for two source events that
\* differ: an event's update never lands on the remote event that an earlier,
\* different event of the run created or updated.
C17_MatchingInjective ==
    \A i, j \in DOMAIN writeLog :
        (i < j /\ writeLog[i] # 0 /\ writeLog[i] = writeLog[j]) => events[i] = events[j]

\* C18: no source event ends the run: a run raises only for a configuration
\* fault, never for the value of an event's start or end.
C18_NoEventAbortsRun ==
    pc = "raised" => cause \in ConfigFaults

\* C19: a pass removes no remote event and writes at most once: an insert
\* adds exactly one remote event, an update rewrites the matched id only,
\* and every other remote event keeps its id, summary, start and end.
C19_Frame ==
    last.idx > 0 =>
        /\ last.calls \in {<<"list">>, <<"list", "insert">>, <<"list", "update">>}
        /\ Len(remote) >= Len(last.before)
        /\ \A id \in DOMAIN last.before :
              id # last.matched => remote[id] = last.before[id]
        /\ last.outcome = "created" =>
              /\ Len(remote) = Len(last.before) + 1
              /\ last.matched = 0
        /\ last.outcome = "updated" =>
              /\ Len(remote) = Len(last.before)
              /\ last.matched \in DOMAIN last.before
        /\ last.outcome = "error" => remote = last.before

\* an update over a store of two events in which the matched event was not
\* the first candidate
C19_Witness ==
    /\ last.outcome = "updated"
    /\ Len(last.before) = 2
    /\ Len(last.cands) = 2
    /\ last.cands[1] # last.matched
    /\ remote[last.matched] # last.before[last.matched]

\* C20: the target is the first candidate, in the order of the list answer,
\* that has a dateTime start within Tolerance and the summary of the source
\* event, whatever the distance of later candidates; a candidate without a
\* dateTime start is never the target; when no candidate qualifies an insert
\* is issued.
C20_FirstMatchInListOrder ==
    (last.idx > 0 /\ last.fault # "list") =>
        /\ last.matched # 0 =>
              \E k \in DOMAIN last.cands :
                 /\ last.cands[k] = last.matched
                 /\ Eligible(k)
                 /\ \A j \in 1..(k - 1) : ~Eligible(j)
        /\ last.matched = 0 =>
              /\ \A k \in DOMAIN last.cands : ~Eligible(k)
              /\ last.calls = <<"list", "insert">>
        /\ \A k \in DOMAIN last.cands :
              ~last.before[last.cands[k]].timed => last.cands[k] # last.matched

\* the first eligible candidate was taken although the next one is closer
C20_Witness ==
    /\ last.outcome = "updated"
    /\ Len(last.cands) = 2
    /\ last.matched = last.cands[1]
    /\ Eligible(2)
    /\ Distance(last.cands[2]) < Distance(last.cands[1])

----
(* Recorders that share history.json: the workers of _sync_now and a       *)
(* scheduled --sync process.  Each runs hist = _load_history();            *)
(* hist.append(rec); _save_history(hist) with no lock, so the statements   *)
(* of different recorders interleave; _save_history first truncates the    *)
(* file (open(HISTORY_PATH, "w")) and then writes it (json.dump).          *)

MaxCycles == 1

Recorders == {"worker1", "worker2", "headless"}

\* a recorder between two cycles
IdleRecorder(cycles) ==
    [at |-> "idle", hist |-> <<>>, rec |-> HistoryRecord(0, NoStats, ""), cycles |-> cycles]

\* the cycles started so far: the clock of the records
Started == LET Sum[S \in SUBSET Recorders] ==
                   IF S = {} THEN 0
                   ELSE LET r == CHOOSE x \in S : TRUE
                        IN recorders[r].cycles + Sum[S \ {r}]
           IN Sum[Recorders]

\* the stats and note a recorder records, its run being a clean one: note
\* "ok" for a worker, "headless" for main --sync
RecorderNotes(r) ==
    LET clean == {n \in RunNotes : n.stats.errors = 0}
    IN IF r = "headless" THEN {[stats |-> n.stats, note |-> "headless"] : n \in clean}
       ELSE clean

\* hist = _load_history(); hist.append({...}): append raises when hist is
\* not a list, and the cycle ends there
RecorderLoad(r) ==
    /\ recorders[r].at = "idle"
    /\ recorders[r].cycles < MaxCycles
    /\ \E n \in RecorderNotes(r) :
          LET hist == LoadHistory(histFile)
              rec == HistoryRecord(Started + 1, n.stats, n.note)
          IN recorders' = [recorders EXCEPT ![r] =
                 IF hist.type = "list"
                 THEN [at |-> "loaded", hist |-> Append(hist.items, rec), rec |-> rec,
                       cycles |-> @.cycles + 1]
                 ELSE IdleRecorder(@.cycles + 1)]
    /\ UNCHANGED <<rvars, gvars, histFile, appended, recResult, report, cvars>>

\* _save_history: open(HISTORY_PATH, "w") leaves the file empty
RecorderOpen(r) ==
    /\ recorders[r].at = "loaded"
    /\ histFile' = BrokenFile
    /\ recorders' = [recorders EXCEPT ![r].at = "opened"]
    /\ UNCHANGED <<rvars, gvars, appended, recResult, report, cvars>>

\* _save_history: json.dump(entries[-HISTORY_MAX:], f) and the close of the file
RecorderDump(r) ==
    /\ recorders[r].at = "opened"
    /\ histFile' = SaveHistory(recorders[r].hist)
    /\ appended' = Append(appended, recorders[r].rec)
    /\ recResult' = "saved"
    /\ recorders' = [recorders EXCEPT ![r] = IdleRecorder(@.cycles)]
    /\ UNCHANGED <<rvars, gvars, report, cvars>>

InitShared ==
    /\ events = <<>> /\ remote = <<>> /\ pc = "start" /\ run = 1 /\ idx = 1
    /\ stats = NoStats /\ faultLog = <<>> /\ writeLog = <<>> /\ cause = "none"
    /\ last = NoLast
    /\ GuiIdle
    /\ FilesIdle
    /\ histFile \in {MissingFile, BrokenFile}
    /\ appended = <<>>
    /\ recResult = "none"
    /\ report = NoReport
    /\ recorders = [r \in Recorders |-> IdleRecorder(0)]

NextShared ==
    \E r \in Recorders :
       \/ RecorderLoad(r)
       \/ RecorderOpen(r)
       \/ RecorderDump(r)

SpecShared == InitShared /\ [][NextShared]_vars

\* no recorder is inside its cycle
AllIdle == \A r \in Recorders : recorders[r].at = "idle"

\* rec is among the records the file holds
Stored(rec) ==
    \E k \in DOMAIN LoadHistory(histFile).items : LoadHistory(histFile).items[k] = rec

\* C21: when recorders run the load-append-save cycle on the same file under
\* any interleaving, the stored history afterwards holds the record of every
\* cycle that saved.
C21_NoRecordLost ==
    AllIdle => \A k \in DOMAIN appended : Stored(appended[k])

====
